---------------------------- MODULE Spec2Model ----------------------------
(***************************************************************************)
(* ANONIMUS QUANTUM LENS v6.0 (src/ANONIMUS.py): the lens system           *)
(* SistemaLentesAjedrez, the move evaluation and selection built on it,    *)
(* the game loop jugar_modo_final_boss and the batch loop main.            *)
(*                                                                         *)
(* Numbers.  Python floats are kept in fixed point:                        *)
(*   amplitudes, energies, scores, impulso, hist_error : thousandths       *)
(*   alpha, beta                                       : ten-thousandths   *)
(*   t_global, dt                                      : hundredths        *)
(*   L, EPS                                            : units of 1e-9     *)
(*   c, c(t)                                           : km/s              *)
(*   angles                                            : milliradians,     *)
(*       reduced to twentieths of a turn before sin / cos are looked up    *)
(*   k_n, omega_n                                      : units of pi       *)
(* x ** y is computed with the linear-mantissa log2 / exp2 pair.           *)
(*                                                                         *)
(* Environment.  python-chess and the UCI engine are external: the board   *)
(* is a strip of Files squares with a king and a man per side; push, pop,  *)
(* is_check, is_capture, is_game_over and result keep the library's        *)
(* definitions on it.  The                                                 *)
(* engine answers with any legal move, or fails.  numpy's generator is a   *)
(* linear congruential generator of RngMod states.                         *)
(***************************************************************************)
EXTENDS Integers, Sequences, FiniteSets

VARIABLES
    sistema,      \* SistemaLentesAjedrez: p (LenteParams), impulso, hist_error, t_global
    rng,          \* state of numpy's global generator
    board,        \* chess.Board
    evaluacion,   \* last dict returned by an evaluation, or NoEval
    calls,        \* number of calls made so far on the lens system (bounded)
    onda,         \* frame of funcion_onda_movimiento
    sel,          \* frame of seleccionar_movimiento_lentes
    game,         \* frame of jugar_modo_final_boss
    batch,        \* frame of main
    runs          \* record of the game runs being compared

vars == <<sistema, rng, board, evaluacion, calls, onda, sel, game, batch, runs>>

---------------------------------------------------------------------------
(* Module constants, src/ANONIMUS.py lines 22-25 *)
C_BASE == 15000000
LANES == 7
EPS == 1
L_DOMAIN == 1000000000

(* Bounds of the model *)
RngMod == 4
Files == 7
MaxCalls == 2

---------------------------------------------------------------------------
(* Arithmetic helpers *)
MaxOf(a, b) == IF a >= b THEN a ELSE b
MinOf(a, b) == IF a <= b THEN a ELSE b
Abs(a) == IF a < 0 THEN -a ELSE a
Sign(a) == IF a > 0 THEN 1 ELSE IF a < 0 THEN -1 ELSE 0

(* sin over one turn in twentieths, in thousandths *)
SinTab == <<0, 309, 588, 809, 951, 1000, 951, 809, 588, 309,
            0, -309, -588, -809, -951, -1000, -951, -809, -588, -309>>

SinIdx(i) == SinTab[(i % 20) + 1]
CosIdx(i) == SinIdx(i + 5)
TurnIdx(mrad) == ((mrad * 20) \div 6283) % 20
Sin(mrad) == SinIdx(TurnIdx(mrad))
Cos(mrad) == CosIdx(TurnIdx(mrad))

RECURSIVE Log2(_)
(* log2 of u > 0 (thousandths), mantissa taken linearly *)
Log2(u) ==
    IF u >= 2000 THEN 1000 + Log2(u \div 2)
    ELSE IF u < 1000 THEN Log2(u * 2) - 1000
    ELSE u - 1000

RECURSIVE Pow2(_)
Pow2(k) == IF k = 0 THEN 1 ELSE 2 * Pow2(k - 1)

Exp2(y) ==
    LET k == y \div 1000
        f == y % 1000
    IN  IF k >= 0 THEN (1000 + f) * Pow2(k) ELSE (1000 + f) \div Pow2(-k)

(* u ** e for u >= 0, both in thousandths *)
Pow(u, e) == IF u = 0 THEN 0 ELSE Exp2((e * Log2(u)) \div 1000)

(* X * Y \div D without leaving 32 bits, for X * (Y % D) in range *)
MulDiv(X, Y, D) == X * (Y \div D) + (X * (Y % D)) \div D

---------------------------------------------------------------------------
(* numpy.random: np.random.uniform(-1, 1) *)
RngNext(r) == (5 * r + 3) % RngMod
Uniform(r) == (2000 * r) \div RngMod - 1000

---------------------------------------------------------------------------
(* LenteParams and SistemaLentesAjedrez.__init__ *)
LenteParams ==
    [L |-> L_DOMAIN, c |-> C_BASE, alpha |-> 1000, beta |-> 500,
     intensidad |-> 1000, umbral_atacar |-> 150, umbral_pensar |-> 80]

NewSistema(params) ==
    [p |-> params, n_canales |-> LANES, impulso |-> 0, hist_error |-> 0, t_global |-> 0]

(* self.fases = np.linspace(0, 2*pi, n_canales, endpoint=False), milliradians *)
Fase(s, k) == (6283 * k) \div s.n_canales

(* 1 + alpha*sin(beta*t), ten-thousandths *)
Denominador(s, t) == 10000 + (s.p.alpha * Sin((s.p.beta * t) \div 1000)) \div 1000

(* c_t: c / (1 + alpha*sin(beta*t)) *)
c_t(s, t) == MulDiv(s.p.c \div 1000, 10000000, Denominador(s, t))

(* k_n = n*pi / max(L, EPS), in units of pi *)
k_n(s, n) == n * (L_DOMAIN \div MaxOf(s.p.L, EPS))

(* omega_n: c_t * k_n, in units of pi *)
omega_n(s, n, t) == c_t(s, t) * k_n(s, n)

kick(s, magnitud) == [s EXCEPT !.impulso = s.impulso + magnitud]

(* ajustar_parametros with the upper clamps forgotten *)
ajustar_sin_tope(s, error_hardware) ==
    [s EXCEPT
       !.p.alpha = MaxOf(100, s.p.alpha + error_hardware),
       !.p.beta = MaxOf(100, s.p.beta + error_hardware \div 2),
       !.hist_error = (9 * s.hist_error + Abs(error_hardware)) \div 10]

ajustar_parametros(s, error_hardware) ==
    [s EXCEPT
       !.p.alpha = MaxOf(100, MinOf(5000, s.p.alpha + error_hardware)),
       !.p.beta = MaxOf(100, MinOf(2500, s.p.beta + error_hardware \div 2)),
       !.hist_error = (9 * s.hist_error + Abs(error_hardware)) \div 10]

softprod(a, b) ==
    LET ab == (a * b) \div 1000
    IN  Sign(ab) * Pow(Abs(ab), 800)

avanzar_tiempo(s, dt) == [s EXCEPT !.t_global = s.t_global + dt]

(* x = [0.1, 0.3, 0.5, 0.7, 0.9], tenths *)
Muestras == <<1, 3, 5, 7, 9>>

RECURSIVE SumSq(_, _)
(* sum of the squares of f[1..j] *)
SumSq(f, j) == IF j = 0 THEN 0 ELSE SumSq(f, j - 1) + (f[j] * f[j]) \div 1000

MeanSq(f) == SumSq(f, Len(f)) \div Len(f)

ModoDe(s, energia_total) ==
    IF energia_total > s.p.umbral_atacar THEN "ATACAR"
    ELSE IF energia_total > s.p.umbral_pensar THEN "PENSAR"
    ELSE "LATENTE"

(* calcular_canal: the energy and mode of one channel; draws one random     *)
(* number and adjusts alpha and beta.  Returns the new system and generator *)
calcular_canal(s, r, t, n, fase_canal, indice_i, deltaC, S) ==
    LET omega == omega_n(s, n, t)
        wt == (((omega % 200) * t) \div 10) % 20
        base == [j \in 1..Len(Muestras) |->
                    (SinIdx(k_n(s, n) * Muestras[j]) * CosIdx(wt)) \div 1000]
        caos == (350 * Sin(7 * t + fase_canal)
                 + 650 * Cos((41 * t) \div 10 + fase_canal \div 2)) \div 1000
        r2 == RngNext(r)
        err_hw == (120 * Sin((13 * t) \div 10 + fase_canal) + 50 * Uniform(r2)) \div 1000
        s2 == ajustar_parametros(s, err_hw)
        factor == (Pow(S, deltaC) * (1000 + 100 * indice_i)) \div 1000
        analizar == [j \in 1..Len(Muestras) |-> base[j] + caos]
        forzar == [j \in 1..Len(Muestras) |-> softprod(base[j], factor)]
        energia_total == MeanSq(analizar) + MeanSq(forzar) + s2.impulso
    IN  [sis |-> s2, rng |-> r2, modo |-> ModoDe(s2, energia_total),
         energia |-> energia_total]

---------------------------------------------------------------------------
(* chess.Board on a strip of Files squares.  Pieces: K, M (white king and  *)
(* man), k, m (black).  A king steps one square; a man steps one square,   *)
(* or two over an empty one; a piece attacks the squares it can step to.   *)
Squares == 1..Files
Other(color) == IF color = "WHITE" THEN "BLACK" ELSE "WHITE"
ColorOf(piece) ==
    IF piece \in {"K", "M"} THEN "WHITE"
    ELSE IF piece \in {"k", "m"} THEN "BLACK" ELSE "NONE"
IsKing(piece) == piece \in {"K", "k"}

(* chess.Board(): the starting position, white to move *)
NewBoard ==
    [sq |-> [i \in Squares |->
               IF i = 1 THEN "K" ELSE IF i = 3 THEN "M"
               ELSE IF i = Files - 1 THEN "m" ELSE IF i = Files THEN "k" ELSE "."],
     turn |-> "WHITE"]

(* chess.Move: from_square, to_square *)
Move(f, t) == [from_square |-> f, to_square |-> t]

(* Board.push: the piece goes to its square, the turn passes *)
Push(b, m) ==
    [sq |-> [b.sq EXCEPT ![m.to_square] = b.sq[m.from_square],
                         ![m.from_square] = "."],
     turn |-> Other(b.turn)]

(* Board.pop: the last move is taken back, the captured piece restored *)
Pop(b, m, captured) ==
    [sq |-> [b.sq EXCEPT ![m.from_square] = b.sq[m.to_square],
                         ![m.to_square] = captured],
     turn |-> Other(b.turn)]

(* the squares the piece on f steps to or attacks *)
Reach(b, f) ==
    {t \in {f - 2, f - 1, f + 1, f + 2} \cap Squares :
        \/ Abs(t - f) = 1
        \/ ~IsKing(b.sq[f]) /\ b.sq[(f + t) \div 2] = "."}

(* Board.is_attacked_by *)
Attacked(b, q, color) ==
    \E f \in {q - 2, q - 1, q + 1, q + 2} \cap Squares :
        ColorOf(b.sq[f]) = color /\ q \in Reach(b, f)

(* Board.is_check: the king of the side to move is attacked *)
IsCheck(b) ==
    \E q \in Squares :
        /\ IsKing(b.sq[q]) /\ ColorOf(b.sq[q]) = b.turn
        /\ Attacked(b, q, Other(b.turn))

(* Board.is_capture: a square the move touches holds a piece of the side   *)
(* that is not to move (the strip has no en passant)                       *)
IsCapture(b, m) ==
    \E q \in {m.from_square, m.to_square} : ColorOf(b.sq[q]) = Other(b.turn)

PseudoLegal(b) ==
    UNION {{Move(f, t) : t \in {t \in Reach(b, f) :
                                  ColorOf(b.sq[t]) # b.turn /\ ~IsKing(b.sq[t])}} :
           f \in {f \in Squares : ColorOf(b.sq[f]) = b.turn}}

(* the mover's own king must not be left attacked *)
LegalSet(b) ==
    {m \in PseudoLegal(b) :
        LET after == Push(b, m)
        IN  ~IsCheck([after EXCEPT !.turn = b.turn])}

MoveKey(m) == m.from_square * (Files + 1) + m.to_square

RECURSIVE SeqOfMoves(_)
SeqOfMoves(S) ==
    IF S = {} THEN <<>>
    ELSE LET m == CHOOSE x \in S : \A y \in S : MoveKey(x) <= MoveKey(y)
         IN  <<m>> \o SeqOfMoves(S \ {m})

(* list(board.legal_moves), in the generator's order *)
LegalMoves(b) == SeqOfMoves(LegalSet(b))

Count(b, piece) == Cardinality({q \in Squares : b.sq[q] = piece})

(* Board.is_game_over: checkmate, stalemate or insufficient material *)
IsGameOver(b) ==
    \/ LegalSet(b) = {}
    \/ \A q \in Squares : b.sq[q] = "." \/ IsKing(b.sq[q])

(* Board.result() *)
Result(b) ==
    IF LegalSet(b) = {} /\ IsCheck(b)
    THEN (IF b.turn = "BLACK" THEN "1-0" ELSE "0-1")
    ELSE IF IsGameOver(b) THEN "1/2-1/2" ELSE "*"

---------------------------------------------------------------------------
(* calcular_material: the sums white and black, a man worth a pawn and a   *)
(* king 0, and the balance |white - black|                                 *)
MaterialDe(b, color) ==
    IF color = "WHITE" THEN Count(b, "M") * 1 + Count(b, "K") * 0
    ELSE Count(b, "m") * 1 + Count(b, "k") * 0

calcular_material(b) == Abs(MaterialDe(b, "WHITE") - MaterialDe(b, "BLACK"))

ScoreDe(energia_total, modo_final) ==
    IF modo_final = "ATACAR" THEN (energia_total * 100 * 3) \div 2
    ELSE energia_total * 100

(* the vote with ties given to ATACAR *)
ModoFinalEmpateAtacar(modo_atacar, modo_pensar) ==
    IF modo_atacar >= modo_pensar THEN "ATACAR" ELSE "PENSAR"

(* Modo dominante por votacion de canales *)
ModoFinal(modo_atacar, modo_pensar) ==
    IF modo_atacar > modo_pensar THEN "ATACAR" ELSE "PENSAR"

(* float('-inf'): below every score; None for a move; None for a dict *)
NegInf == -2147483647
NoMove == [from_square |-> 0, to_square |-> 0]
NoEval == [modo |-> "None"]

(* a function that is not being executed *)
Idle == [pc |-> "idle"]

---------------------------------------------------------------------------
(* funcion_onda_movimiento, run one channel evaluation per step.  The      *)
(* sampled field (salida, canal_sum, field_total) is computed and dropped  *)
(* by the code and is left out; energias is kept as its sum and length,    *)
(* modos_canales as the counts of ATACAR and PENSAR.                       *)

(* the locals on entry, up to the head of: for k in range(self.n_canales)  *)
OndaLlamada(s, b, move_number) ==
    LET material == calcular_material(b)
        mobility == Len(LegalMoves(b))
    IN  [pc |-> "canales", k |-> 0, n |-> 1,
         indice_i |-> (material % 10) + 1,
         deltaC |-> 500 + 10 * mobility,
         S |-> 1000 + 10 * move_number,
         t |-> s.t_global,
         energias |-> 0, n_energias |-> 0, atacar |-> 0, pensar |-> 0]

(* one turn of: for n in [1, 2, 3], inside: for k in range(n_canales) *)
Canal ==
    /\ onda.pc = "canales"
    /\ onda.k < sistema.n_canales
    /\ LET o == calcular_canal(sistema, rng, onda.t, onda.n, Fase(sistema, onda.k),
                               onda.indice_i, onda.deltaC, onda.S)
       IN  /\ sistema' = o.sis
           /\ rng' = o.rng
           /\ onda' = [onda EXCEPT
                         !.n = IF onda.n = 3 THEN 1 ELSE onda.n + 1,
                         !.k = IF onda.n = 3 THEN onda.k + 1 ELSE onda.k,
                         !.energias = onda.energias + o.energia,
                         !.n_energias = onda.n_energias + 1,
                         !.atacar = onda.atacar + (IF o.modo = "ATACAR" THEN 1 ELSE 0),
                         !.pensar = onda.pensar + (IF o.modo = "PENSAR" THEN 1 ELSE 0)]
    /\ UNCHANGED <<board, evaluacion, calls, sel, game, batch, runs>>

(* after the loops: mean energy, vote, score, decay of impulso, the dict *)
Votacion ==
    /\ onda.pc = "canales"
    /\ onda.k = sistema.n_canales
    /\ LET energia_total == onda.energias \div onda.n_energias
           modo_final == ModoFinal(onda.atacar, onda.pensar)
           s2 == [sistema EXCEPT !.impulso = (sistema.impulso * 96) \div 100]
       IN  /\ sistema' = s2
           /\ evaluacion' = [score |-> ScoreDe(energia_total, modo_final),
                             energia |-> energia_total,
                             modo |-> modo_final,
                             canales_atacar |-> onda.atacar,
                             canales_pensar |-> onda.pensar,
                             c_t |-> c_t(s2, onda.t),
                             impulso |-> s2.impulso]
    /\ onda' = [pc |-> "returned"]
    /\ UNCHANGED <<rng, board, calls, sel, game, batch, runs>>

---------------------------------------------------------------------------
(* the comparison turned round: score < mejor_score *)
MejorAlReves(fr, move, ev) ==
    IF ev.score < fr.mejor_score
    THEN [fr EXCEPT !.mejor_score = ev.score, !.mejor_move = move, !.mejor_eval = ev]
    ELSE fr

(* if evaluacion['score'] > mejor_score: keep the move *)
Mejor(fr, move, ev) ==
    IF ev.score > fr.mejor_score
    THEN [fr EXCEPT !.mejor_score = ev.score, !.mejor_move = move, !.mejor_eval = ev]
    ELSE fr

(* seleccionar_movimiento_lentes on entry: legal_moves, the early return,  *)
(* the three locals.  evals keeps the dicts of this call in evaluation     *)
(* order.                                                                  *)
SelLlamada(b, move_number) ==
    LET legal_moves == LegalMoves(b)
    IN  IF legal_moves = <<>>
        THEN [pc |-> "returned", move |-> NoMove, eval |-> NoEval,
              legal_moves |-> legal_moves, evals |-> <<>>]
        ELSE [pc |-> "loop", legal_moves |-> legal_moves, i |-> 1,
              move_number |-> move_number, mejor_move |-> NoMove,
              mejor_eval |-> NoEval, mejor_score |-> NegInf,
              captured |-> ".", evals |-> <<>>]

(* for move in legal_moves: evaluar_movimiento_lentes is entered, the move *)
(* pushed and funcion_onda_movimiento called on the board after it         *)
Evaluar ==
    /\ sel.pc = "loop"
    /\ sel.i <= Len(sel.legal_moves)
    /\ LET move == sel.legal_moves[sel.i]
           b1 == Push(board, move)
       IN  /\ board' = b1
           /\ onda' = OndaLlamada(sistema, b1, sel.move_number)
           /\ sel' = [sel EXCEPT !.pc = "eval", !.captured = board.sq[move.to_square]]
    /\ UNCHANGED <<sistema, rng, evaluacion, calls, game, batch, runs>>

(* funcion_onda_movimiento has returned: the kicks of                      *)
(* evaluar_movimiento_lentes, board.pop(), and back in the caller the      *)
(* comparison with mejor_score                                             *)
Evaluado ==
    /\ sel.pc = "eval"
    /\ onda.pc = "returned"
    /\ LET move == sel.legal_moves[sel.i]
           jaque == IsCheck(board)
           captura == IsCapture(board, move)
           s1 == IF jaque THEN kick(sistema, 800) ELSE sistema
           s2 == IF captura THEN kick(s1, 500) ELSE s1
           ev == [evaluacion EXCEPT
                    !.score = evaluacion.score + (IF jaque THEN 50000 ELSE 0)
                                               + (IF captura THEN 30000 ELSE 0)]
           fr == Mejor(sel, move, ev)
       IN  /\ sistema' = s2
           /\ evaluacion' = ev
           /\ board' = Pop(board, move, sel.captured)
           /\ sel' = [fr EXCEPT !.pc = "loop", !.i = sel.i + 1, !.captured = ".",
                                !.evals = Append(sel.evals, ev)]
    /\ onda' = Idle
    /\ UNCHANGED <<rng, calls, game, batch, runs>>

(* sistema_lentes.avanzar_tiempo(0.08); return mejor_move, mejor_eval *)
Seleccionado ==
    /\ sel.pc = "loop"
    /\ sel.i > Len(sel.legal_moves)
    /\ sistema' = avanzar_tiempo(sistema, 8)
    /\ sel' = [pc |-> "returned", move |-> sel.mejor_move, eval |-> sel.mejor_eval,
               legal_moves |-> sel.legal_moves, evals |-> sel.evals]
    /\ UNCHANGED <<rng, board, evaluacion, calls, onda, game, batch, runs>>

---------------------------------------------------------------------------
(* Values the specifications draw from *)

RECURSIVE Tras(_)
(* the positions after at most n plies from the starting position *)
Tras(n) ==
    IF n = 0 THEN {NewBoard}
    ELSE LET antes == Tras(n - 1)
         IN  antes \cup UNION {{Push(b, m) : m \in LegalSet(b)} : b \in antes}

(* positions a caller can hand to the lens system *)
Posiciones == Tras(1)
PosicionesSel == Tras(2)

(* LenteParams a caller can build the system from: the defaults, and the   *)
(* defaults with both thresholds raised                                    *)
ParamSets ==
    {LenteParams,
     [LenteParams EXCEPT !.umbral_atacar = 2000, !.umbral_pensar = 1500],
     [LenteParams EXCEPT !.umbral_atacar = 60000, !.umbral_pensar = 50000]}

Semillas == 0..(RngMod - 1)

---------------------------------------------------------------------------
(* SpecLens: the public operations of SistemaLentesAjedrez, called in any  *)
(* order on a freshly built system.                                        *)
InitLens ==
    /\ sistema \in {NewSistema(params) : params \in ParamSets}
    /\ rng \in Semillas
    /\ board \in Posiciones
    /\ evaluacion = NoEval
    /\ calls = 0
    /\ onda = Idle /\ sel = Idle /\ game = Idle /\ batch = Idle /\ runs = Idle

Kick(magnitud) ==
    /\ onda.pc = "idle"
    /\ calls < MaxCalls
    /\ sistema' = kick(sistema, magnitud)
    /\ calls' = calls + 1
    /\ UNCHANGED <<rng, board, evaluacion, onda, sel, game, batch, runs>>

AjustarParametros(error_hardware) ==
    /\ onda.pc = "idle"
    /\ calls < MaxCalls
    /\ sistema' = ajustar_parametros(sistema, error_hardware)
    /\ calls' = calls + 1
    /\ UNCHANGED <<rng, board, evaluacion, onda, sel, game, batch, runs>>

AvanzarTiempo(dt) ==
    /\ onda.pc = "idle"
    /\ calls < MaxCalls
    /\ sistema' = avanzar_tiempo(sistema, dt)
    /\ calls' = calls + 1
    /\ UNCHANGED <<rng, board, evaluacion, onda, sel, game, batch, runs>>

(* a caller enters funcion_onda_movimiento with the board it holds *)
FuncionOndaMovimiento(move_number) ==
    /\ onda.pc = "idle"
    /\ calls < MaxCalls
    /\ onda' = OndaLlamada(sistema, board, move_number)
    /\ calls' = calls + 1
    /\ UNCHANGED <<sistema, rng, board, evaluacion, sel, game, batch, runs>>

(* the caller has the dict *)
Retorno ==
    /\ onda.pc = "returned"
    /\ sel.pc = "idle"
    /\ onda' = Idle
    /\ UNCHANGED <<sistema, rng, board, evaluacion, calls, sel, game, batch, runs>>

Magnitudes == {500, 800}
Errores == {-1000000, 170, 1000000}
Pasos == {8, 1000}
MoveNumbers == {50}

NextLens ==
    \/ \E m \in Magnitudes : Kick(m)
    \/ \E e \in Errores : AjustarParametros(e)
    \/ \E dt \in Pasos : AvanzarTiempo(dt)
    \/ \E mn \in MoveNumbers : FuncionOndaMovimiento(mn)
    \/ Canal
    \/ Votacion
    \/ Retorno

SpecLens == InitLens /\ [][NextLens]_vars

---------------------------------------------------------------------------
(* SpecSel: seleccionar_movimiento_lentes called on a position of the      *)
(* first plies; the caller then plays the move returned.                   *)
InitSel ==
    /\ sistema = NewSistema(LenteParams)
    /\ rng \in Semillas
    /\ board \in PosicionesSel
    /\ evaluacion = NoEval
    /\ calls = 0
    /\ onda = Idle /\ sel = Idle /\ game = Idle /\ batch = Idle /\ runs = Idle

Seleccionar(move_number) ==
    /\ sel.pc = "idle"
    /\ calls < MaxCalls
    /\ calls' = calls + 1
    /\ sel' = SelLlamada(board, move_number)
    /\ UNCHANGED <<sistema, rng, board, evaluacion, onda, game, batch, runs>>

(* the caller plays the move it was given: board.push(move) *)
Jugar ==
    /\ sel.pc = "returned"
    /\ sel.move # NoMove
    /\ board' = Push(board, sel.move)
    /\ sel' = Idle
    /\ UNCHANGED <<sistema, rng, evaluacion, calls, onda, game, batch, runs>>

MoveNumbersSel == {1, 99}

NextSel ==
    \/ \E mn \in MoveNumbersSel : Seleccionar(mn)
    \/ Evaluar
    \/ Canal
    \/ Votacion
    \/ Evaluado
    \/ Seleccionado
    \/ Jugar

SpecSel == InitSel /\ [][NextSel]_vars

---------------------------------------------------------------------------
(* C1: whenever funcion_onda_movimiento has returned, the mode in its dict  *)
(* is PENSAR or ATACAR, never LATENTE, and it is ATACAR exactly when more   *)
(* channel evaluations chose ATACAR than PENSAR; every tie gives PENSAR.    *)
C1_ModoPorVotacion ==
    evaluacion # NoEval =>
        /\ evaluacion.modo \in {"PENSAR", "ATACAR"}
        /\ evaluacion.modo = "ATACAR" <=>
               evaluacion.canales_atacar > evaluacion.canales_pensar
        /\ evaluacion.canales_atacar = evaluacion.canales_pensar =>
               evaluacion.modo = "PENSAR"

(* a call in which every channel evaluation chose LATENTE: 0 against 0 *)
C1_Witness ==
    /\ evaluacion # NoEval
    /\ evaluacion.canales_atacar = 0 /\ evaluacion.canales_pensar = 0
    /\ evaluacion.modo = "PENSAR"

Tiempos == {100 * i : i \in 0..30} \cup {sistema.t_global}

(* C5: from the default alpha and beta, after any calls of                 *)
(* ajustar_parametros, alpha is in [0.01, 0.50] and beta in [0.01, 0.25],  *)
(* the denominator 1 + alpha*sin(beta*t) of c_t is at least 0.5 at every   *)
(* t, and max(L, EPS) is not zero.                                         *)
C5_DominiosAcotados ==
    /\ sistema.p.alpha >= 100 /\ sistema.p.alpha <= 5000
    /\ sistema.p.beta >= 100 /\ sistema.p.beta <= 2500
    /\ \A t \in Tiempos : Denominador(sistema, t) >= 5000
    /\ MaxOf(sistema.p.L, EPS) > 0

(* alpha and beta clamped at their upper ends, the denominator at 0.5 *)
C5_Witness ==
    /\ calls > 0
    /\ sistema.p.alpha = 5000 /\ sistema.p.beta = 2500
    /\ \E t \in Tiempos : Denominador(sistema, t) = 5000

(* C7: when evaluar_movimiento_lentes has evaluated a move, the impulse    *)
(* added on top of the dict's impulso is 0.8 exactly if the move gives     *)
(* check plus 0.5 exactly if the move captures in the position it is       *)
(* played from, and the score added is 50 and 30 on the same conditions;   *)
(* a quiet move that gives no check adds nothing.                          *)
C7_ImpulsosPorEvento ==
    (sel.pc = "loop" /\ sel.i > 1) =>
        LET move == sel.legal_moves[sel.i - 1]
            captura == IsCapture(board, move)
            jaque == IsCheck(Push(board, move))
            kicks == (IF jaque THEN 800 ELSE 0) + (IF captura THEN 500 ELSE 0)
            bonus == (IF jaque THEN 50000 ELSE 0) + (IF captura THEN 30000 ELSE 0)
        IN  /\ sistema.impulso - evaluacion.impulso = kicks
            /\ evaluacion.score - ScoreDe(evaluacion.energia, evaluacion.modo) = bonus

(* C8: when seleccionar_movimiento_lentes has returned, it gave (None,     *)
(* None) exactly if the position has no legal move; otherwise the move is  *)
(* a legal move of the position, the dict is the one computed for that     *)
(* move in this call, no move of the call scored higher, and every move    *)
(* evaluated before it scored strictly lower.                              *)
C8_MejorMovimiento ==
    sel.pc = "returned" =>
        /\ sel.legal_moves = LegalMoves(board)
        /\ (sel.move = NoMove /\ sel.eval = NoEval) <=> (LegalMoves(board) = <<>>)
        /\ (sel.move = NoMove) <=> (sel.eval = NoEval)
        /\ sel.move # NoMove =>
             /\ Len(sel.evals) = Len(sel.legal_moves)
             /\ \E i \in 1..Len(sel.legal_moves) :
                  /\ sel.move = sel.legal_moves[i]
                  /\ sel.eval = sel.evals[i]
                  /\ \A j \in 1..Len(sel.evals) : sel.evals[j].score <= sel.eval.score
                  /\ \A j \in 1..(i - 1) : sel.evals[j].score < sel.eval.score

(* a call that returned a move other than the first one it evaluated *)
C8_Witness ==
    /\ sel.pc = "returned"
    /\ sel.move # NoMove
    /\ sel.move # sel.legal_moves[1]

---------------------------------------------------------------------------
(* jugar_modo_final_boss.  game.engine is the engine process: "none",      *)
(* "running" or "quit".  While runs are being compared, runs.traza keeps   *)
(* the (modo, score) of each move of ANONIMUS and runs.respuestas the      *)
(* moves the engine answered, in order.                                    *)
NoPartida == [ganador |-> "None"]

(* board = chess.Board(), about to enter the try *)
JugarLlamada ==
    [pc |-> "popen", engine |-> "none", move_number |-> 0, partida |-> NoPartida]

(* the condition of the while with the limit one move further *)
SigueJugandoDeMas(b, move_number) == ~IsGameOver(b) /\ move_number <= 100

(* while not board.is_game_over() and move_number < 100 *)
SigueJugando(b, move_number) == ~IsGameOver(b) /\ move_number < 100

(* the winner with the two sides exchanged *)
GanadorAlReves(result) ==
    IF result = "1-0" THEN "STOCKFISH"
    ELSE IF result = "0-1" THEN "ANONIMUS" ELSE "EMPATE"

(* winner = "ANONIMUS" if result == "1-0" else "STOCKFISH" if ... *)
Ganador(result) ==
    IF result = "1-0" THEN "ANONIMUS"
    ELSE IF result = "0-1" THEN "STOCKFISH" ELSE "EMPATE"

(* chess.engine.SimpleEngine.popen_uci(...) starts the engine *)
PopenUci ==
    /\ game.pc = "popen"
    /\ game' = [game EXCEPT !.pc = "configure", !.engine = "running"]
    /\ UNCHANGED <<sistema, rng, board, evaluacion, calls, onda, sel, batch, runs>>

(* popen_uci raises: except Exception: return None *)
PopenFalla ==
    /\ game.pc = "popen"
    /\ game' = [game EXCEPT !.pc = "returned", !.partida = NoPartida]
    /\ UNCHANGED <<sistema, rng, board, evaluacion, calls, onda, sel, batch, runs>>

(* engine.configure(...) succeeds; params, sistema, move_number = 0 *)
Configure ==
    /\ game.pc = "configure"
    /\ sistema' = NewSistema(LenteParams)
    /\ game' = [game EXCEPT !.pc = "loop", !.move_number = 0]
    /\ UNCHANGED <<rng, board, evaluacion, calls, onda, sel, batch, runs>>

(* engine.configure(...) raises: except Exception: return None *)
ConfigureFalla ==
    /\ game.pc = "configure"
    /\ game' = [game EXCEPT !.pc = "returned", !.partida = NoPartida]
    /\ UNCHANGED <<sistema, rng, board, evaluacion, calls, onda, sel, batch, runs>>

(* a turn of the while with white to move: seleccionar_movimiento_lentes   *)
(* is entered                                                              *)
TurnoAnonimus ==
    /\ game.pc = "loop"
    /\ SigueJugando(board, game.move_number)
    /\ board.turn = "WHITE"
    /\ sel.pc = "idle"
    /\ game' = [game EXCEPT !.pc = "sel", !.move_number = game.move_number + 1]
    /\ sel' = SelLlamada(board, game.move_number + 1)
    /\ UNCHANGED <<sistema, rng, board, evaluacion, calls, onda, batch, runs>>

(* the (modo, score) of a move of ANONIMUS put on record *)
AnotarEvaluacion(r, ev) ==
    IF r.pc = "idle" \/ ev = NoEval THEN r
    ELSE [r EXCEPT !.traza = Append(r.traza, [modo |-> ev.modo, score |-> ev.score])]

(* seleccionar_movimiento_lentes has returned: if move and evaluacion: the *)
(* report; if move: board.push(move)                                       *)
MueveAnonimus ==
    /\ game.pc = "sel"
    /\ sel.pc = "returned"
    /\ board' = IF sel.move # NoMove THEN Push(board, sel.move) ELSE board
    /\ game' = [game EXCEPT !.pc = "loop"]
    /\ runs' = AnotarEvaluacion(runs, sel.eval)
    /\ sel' = Idle
    /\ UNCHANGED <<sistema, rng, evaluacion, calls, onda, batch>>

(* a turn of the while with white to move, the choice of                   *)
(* seleccionar_movimiento_lentes left open: some legal move of a position  *)
(* that is not over, pushed by: if move: board.push(move).  The lens       *)
(* system's state is not followed.                                         *)
TurnoAnonimusAbierto ==
    /\ game.pc = "loop"
    /\ SigueJugando(board, game.move_number)
    /\ board.turn = "WHITE"
    /\ \E move \in LegalSet(board) : board' = Push(board, move)
    /\ game' = [game EXCEPT !.move_number = game.move_number + 1]
    /\ UNCHANGED <<sistema, rng, evaluacion, calls, onda, sel, batch, runs>>

(* the engine's answer left off the record *)
SinAnotar(r, move) == r

(* result.move, the engine's answer, put on record *)
Anotar(r, move) ==
    IF r.pc = "idle" THEN r ELSE [r EXCEPT !.respuestas = Append(r.respuestas, move)]

(* a turn of the while with black to move: engine.play answers with a      *)
(* legal move; if move: board.push(move)                                   *)
TurnoStockfish ==
    /\ game.pc = "loop"
    /\ SigueJugando(board, game.move_number)
    /\ board.turn = "BLACK"
    /\ \E move \in LegalSet(board) :
           /\ board' = Push(board, move)
           /\ runs' = Anotar(runs, move)
    /\ game' = [game EXCEPT !.move_number = game.move_number + 1]
    /\ UNCHANGED <<sistema, rng, evaluacion, calls, onda, sel, batch>>

(* engine.play raises (the engine died, or timed out): nothing catches it, *)
(* jugar_modo_final_boss and main are left by the exception                *)
PlayFalla ==
    /\ game.pc = "loop"
    /\ SigueJugando(board, game.move_number)
    /\ board.turn = "BLACK"
    /\ game' = [game EXCEPT !.pc = "raised", !.move_number = game.move_number + 1]
    /\ batch' = IF batch.pc = "idle" THEN batch ELSE [batch EXCEPT !.pc = "raised"]
    /\ UNCHANGED <<sistema, rng, board, evaluacion, calls, onda, sel, runs>>

(* the while is left: engine.quit(), result, winner, the dict returned *)
FinPartida ==
    /\ game.pc = "loop"
    /\ ~SigueJugando(board, game.move_number)
    /\ game' = [game EXCEPT
                  !.pc = "returned",
                  !.engine = "quit",
                  !.partida = [resultado |-> Result(board),
                               ganador |-> Ganador(Result(board)),
                               movimientos |-> game.move_number]]
    /\ UNCHANGED <<sistema, rng, board, evaluacion, calls, onda, sel, batch, runs>>

---------------------------------------------------------------------------
(* main.  batch.i counts the turns of: for i in range(num_games);          *)
(* batch.sin_partida counts the games that returned None.                  *)
MaxGames == 2

(* a game that returned None counted as a draw *)
ContarNoneComoEmpate(resultados, partida) ==
    IF partida # NoPartida
    THEN [resultados EXCEPT ![partida.ganador] = resultados[partida.ganador] + 1]
    ELSE [resultados EXCEPT !["EMPATE"] = resultados["EMPATE"] + 1]

(* if partida: resultados[partida['ganador']] += 1 *)
Contar(resultados, partida) ==
    IF partida # NoPartida
    THEN [resultados EXCEPT ![partida.ganador] = resultados[partida.ganador] + 1]
    ELSE resultados

(* num_games = int(input(...) or "3"); resultados = {...: 0} *)
Input(num_games) ==
    /\ batch.pc = "input"
    /\ batch' = [pc |-> "loop", num_games |-> num_games, i |-> 0, sin_partida |-> 0,
                 resultados |-> [g \in {"ANONIMUS", "STOCKFISH", "EMPATE"} |-> 0]]
    /\ UNCHANGED <<sistema, rng, board, evaluacion, calls, onda, sel, game, runs>>

(* for i in range(num_games): jugar_modo_final_boss is entered *)
Partida ==
    /\ batch.pc = "loop"
    /\ batch.i < batch.num_games
    /\ game.pc = "idle"
    /\ board' = NewBoard
    /\ game' = JugarLlamada
    /\ UNCHANGED <<sistema, rng, evaluacion, calls, onda, sel, batch, runs>>

(* jugar_modo_final_boss has returned: if partida: ... += 1 *)
Recoger ==
    /\ batch.pc = "loop"
    /\ game.pc = "returned"
    /\ batch' = [batch EXCEPT
                   !.resultados = Contar(batch.resultados, game.partida),
                   !.sin_partida = batch.sin_partida
                                   + (IF game.partida = NoPartida THEN 1 ELSE 0),
                   !.i = batch.i + 1]
    /\ game' = Idle
    /\ UNCHANGED <<sistema, rng, board, evaluacion, calls, onda, sel, runs>>

(* the for is over: the results are printed *)
Resumen ==
    /\ batch.pc = "loop"
    /\ batch.i >= batch.num_games
    /\ game.pc = "idle"
    /\ batch' = [batch EXCEPT !.pc = "done"]
    /\ UNCHANGED <<sistema, rng, board, evaluacion, calls, onda, sel, game, runs>>

---------------------------------------------------------------------------
(* SpecGame: main asked for -1 .. MaxGames games, every game played with   *)
(* the choice of ANONIMUS left open.                                       *)
InitGame ==
    /\ sistema = NewSistema(LenteParams)
    /\ rng = 0
    /\ board = NewBoard
    /\ evaluacion = NoEval
    /\ calls = 0
    /\ onda = Idle /\ sel = Idle /\ game = Idle /\ runs = Idle
    /\ batch = [pc |-> "input"]

NextGame ==
    \/ \E n \in (-1)..MaxGames : Input(n)
    \/ Partida
    \/ PopenUci
    \/ PopenFalla
    \/ Configure
    \/ ConfigureFalla
    \/ TurnoAnonimusAbierto
    \/ TurnoStockfish
    \/ PlayFalla
    \/ FinPartida
    \/ Recoger
    \/ Resumen

SpecGame == InitGame /\ [][NextGame]_vars

(* SpecPartida: one call of jugar_modo_final_boss, the choice of ANONIMUS   *)
(* left open, the program never stopping while it has a step to take: the  *)
(* interpreter runs on, and the engine answers or fails.                   *)
InitPartida ==
    /\ sistema = NewSistema(LenteParams)
    /\ rng = 0
    /\ board = NewBoard
    /\ evaluacion = NoEval
    /\ calls = 0
    /\ onda = Idle /\ sel = Idle /\ batch = Idle /\ runs = Idle
    /\ game = JugarLlamada

NextPartida ==
    \/ PopenUci
    \/ PopenFalla
    \/ Configure
    \/ ConfigureFalla
    \/ TurnoAnonimusAbierto
    \/ TurnoStockfish
    \/ PlayFalla
    \/ FinPartida

SpecPartida == InitPartida /\ [][NextPartida]_vars /\ WF_vars(NextPartida)

Suma(resultados) ==
    resultados["ANONIMUS"] + resultados["STOCKFISH"] + resultados["EMPATE"]

(* C2 as stated: the number of plies reported for a finished game is       *)
(* between 35 and 65.                                                      *)
C2_PliesEntre35y65 ==
    (game.pc = "returned" /\ game.partida # NoPartida) =>
        game.partida.movimientos \in 35..65

PliesHastaCien ==
    /\ game.pc \in {"loop", "sel", "returned", "raised"} =>
           game.move_number \in 0..100
    /\ (game.pc = "returned" /\ game.partida # NoPartida) =>
           /\ game.partida.movimientos = game.move_number
           /\ game.partida.movimientos \in 1..100
           /\ IsGameOver(board) \/ game.partida.movimientos = 100
           /\ game.partida.resultado = Result(board)

(* C2: every game that is entered is left, by a return or by the engine's  *)
(* exception; it ends when the position is over or after 100 turns of the  *)
(* loop, whichever comes first: move_number never passes 100, the loop is  *)
(* left only with the game over or move_number at 100, and the number of   *)
(* plies reported is move_number, between 1 and 100.                       *)
C2_TerminaEnCien ==
    /\ []PliesHastaCien
    /\ (game.pc = "popen") ~> (game.pc \in {"returned", "raised"})

(* a game stopped by the limit with the position not over *)
C2_Witness ==
    /\ game.pc = "returned" /\ game.partida # NoPartida
    /\ game.partida.movimientos = 100
    /\ ~IsGameOver(board)
    /\ game.partida.resultado = "*"

Mate(b, color) == b.turn = color /\ LegalSet(b) = {} /\ IsCheck(b)

(* the margins of the three difficulties, in hundredths *)
Margenes == {135, 125, 115}

C9_EngineCerrado ==
    game.pc = "returned" => game.engine # "running"

---------------------------------------------------------------------------
(* SpecDet: two runs of jugar_modo_final_boss, one after the other, each   *)
(* in a process of its own whose generator starts from a seed; the engine  *)
(* starts in both.  A run is observed for its first MaxPlies turns of the  *)
(* loop, or to its end if that comes sooner, and its record kept.          *)
MaxPlies == 5

NoRun == [semilla |-> -1]

(* what is kept of a run: the seed, the (modo, score) of the moves of      *)
(* ANONIMUS, the engine's answers, board.result() and whether the run      *)
(* returned                                                                *)
Registro(r, b, g) ==
    [semilla |-> r.semilla, traza |-> r.traza, respuestas |-> r.respuestas,
     resultado |-> Result(b), returned |-> g.pc = "returned"]

Observada(g, b) ==
    \/ g.pc = "returned"
    \/ g.pc = "loop" /\ g.move_number = MaxPlies /\ SigueJugando(b, g.move_number)

InitDet ==
    /\ sistema = NewSistema(LenteParams)
    /\ rng \in Semillas
    /\ board = NewBoard
    /\ evaluacion = NoEval
    /\ calls = 0
    /\ onda = Idle /\ sel = Idle /\ game = Idle /\ batch = Idle
    /\ runs = [pc |-> "primera", semilla |-> rng, traza |-> <<>>, respuestas |-> <<>>,
               primera |-> NoRun, segunda |-> NoRun]

(* the process enters jugar_modo_final_boss *)
Correr ==
    /\ runs.pc \in {"primera", "segunda"}
    /\ game.pc = "idle"
    /\ board' = NewBoard
    /\ game' = JugarLlamada
    /\ UNCHANGED <<sistema, rng, evaluacion, calls, onda, sel, batch, runs>>

(* the first run is over; a second process starts from a seed *)
Otra(semilla) ==
    /\ runs.pc = "primera"
    /\ Observada(game, board)
    /\ runs' = [pc |-> "segunda", semilla |-> semilla, traza |-> <<>>,
                respuestas |-> <<>>, primera |-> Registro(runs, board, game),
                segunda |-> NoRun]
    /\ rng' = semilla
    /\ sistema' = NewSistema(LenteParams)
    /\ board' = NewBoard
    /\ evaluacion' = NoEval
    /\ game' = Idle
    /\ UNCHANGED <<calls, onda, sel, batch>>

(* the second run is over *)
Comparar ==
    /\ runs.pc = "segunda"
    /\ Observada(game, board)
    /\ runs' = [runs EXCEPT !.pc = "fin", !.segunda = Registro(runs, board, game)]
    /\ UNCHANGED <<sistema, rng, board, evaluacion, calls, onda, sel, game, batch>>

NextDet ==
    \/ Correr
    \/ PopenUci
    \/ Configure
    \/ game.pc = "loop" /\ game.move_number < MaxPlies /\ TurnoAnonimus
    \/ Evaluar
    \/ Canal
    \/ Votacion
    \/ Evaluado
    \/ Seleccionado
    \/ MueveAnonimus
    \/ game.pc = "loop" /\ game.move_number < MaxPlies /\ TurnoStockfish
    \/ FinPartida
    \/ \E semilla \in Semillas : Otra(semilla)
    \/ Comparar

SpecDet == InitDet /\ [][NextDet]_vars

===========================================================================
